---------------------------- MODULE Spec2Model ----------------------------
(***************************************************************************)
(* Model of cloud/google/gcdataproc.py: the Ansible module that creates or *)
(* deletes a Google Cloud Dataproc cluster.  One behaviour of Spec is one  *)
(* invocation of main(); TwoRunSpec lets a finished invocation be followed *)
(* by another one with the same inputs against the same remote.            *)
(*                                                                         *)
(* Conventions.  A module option is None (not given), Empty (given, but a  *)
(* falsy value: '', [] or {}) or its non-empty value, written as the       *)
(* option's own name so that values of different options differ.  Strings  *)
(* that the code inspects (region, zone) are sequences of characters; URIs *)
(* are sequences of path segments.  Dictionaries are functions whose       *)
(* DOMAIN is the set of keys.                                              *)
(***************************************************************************)
EXTENDS Integers, Sequences, FiniteSets, TLC

VARIABLES
    params,              \* module.params: the optional cluster options
    state,               \* module.params['state']
    sync,                \* module.params['sync']
    region,              \* module.params['region']
    zone,                \* module.params['zone']
    HAS_GOOGLE_API_LIB,  \* result of the guarded import
    exists,              \* the remote: does the cluster exist
    pc,                  \* position of main()
    changed,             \* local variable changed
    json,                \* local variable json
    body,                \* request body handed to the create call
    result,              \* what the process reported when it ended
    envMissing,          \* history: an environment value read was missing or empty
    firstGet,            \* history: how the initial get-cluster call ended
    auths,               \* history: credential loads of this run
    gets,                \* history: get calls of this run (saturating)
    creates,             \* history: create calls of this run
    deletes,             \* history: delete calls of this run
    lastCall,            \* history: the last remote call and how it ended
    faults,              \* history: a remote call failed other than by not-found
    run                  \* index of the current invocation

inputs == <<params, state, sync, region, zone, HAS_GOOGLE_API_LIB>>
locals == <<pc, changed, json, body, result>>
hist   == <<envMissing, firstGet, auths, gets, creates, deletes, lastCall>>
vars   == <<params, state, sync, region, zone, HAS_GOOGLE_API_LIB, exists,
           pc, changed, json, body, result, envMissing, firstGet, auths,
           gets, creates, deletes, lastCall, faults, run>>

---------------------------------------------------------------------------
(* Bounds of the model *)

\* at most this many of the optional cluster options are given
MaxGiven == 2
\* the per-run count of get calls saturates here
MaxGets == 3
\* invocations in TwoRunSpec
MaxRuns == 2

---------------------------------------------------------------------------
(* Values *)

None  == "None"
Empty == "Empty"

\* Python truthiness of an option or environment value
Truthy(v) == v \notin {None, Empty}

OptionNames ==
    {"image_version", "bucket", "network", "subnetwork",
     "service_account_scopes", "metadata", "init_actions",
     "master_config", "worker_config", "second_worker_config"}

OptionValues(o) == {None, Empty, o}

StateValues == {"present", "active", "absent", "deleted", "started"}

Regions == {<<"a">>, <<"a", "b">>}
Zones   == {<<"a">>, <<"a", "a", "b">>}

EnvNames == {"GCE_EMAIL", "GCE_PROJECT", "GCE_CREDENTIALS_FILE_PATH"}
EnvValues == {None, Empty, "set"}

ClusterStates == {"CREATING", "RUNNING", "ERROR"}

name == "demo"
gce_project == "proj"

EmptyDict == [k \in {} |-> None]

Put(d, k, v) == [x \in (DOMAIN d) \cup {k} |-> IF x = k THEN v ELSE d[x]]

\* str.startswith
StartsWith(s, prefix) ==
    /\ Len(prefix) <= Len(s)
    /\ \A i \in 1..Len(prefix) : s[i] = prefix[i]


---------------------------------------------------------------------------
(* Request body *)

\* module.params.get('tags'): the argument_spec declares no option 'tags',
\* so the lookup always yields None
tags == None

generate_resource_uri(project, args) == <<"projects", project>> \o args

\* body['config'][key] = value
SetConfig(r, key, value) ==
    IF ~r.ok THEN r
    ELSE [r EXCEPT !.body.config = Put(@, key, value)]

\* body['config'][sub][key] = value; a KeyError when body['config'] has no sub
SetConfigIn(r, sub, key, value) ==
    IF ~r.ok THEN r
    ELSE IF sub \notin DOMAIN r.body.config THEN [r EXCEPT !.ok = FALSE]
    ELSE [r EXCEPT !.body.config[sub] = Put(@, key, value)]

\* [ok |-> TRUE, body |-> the dictionary returned], or ok = FALSE when the
\* function raises KeyError
populate_request_body(p, project, rgn, zn) ==
    LET b0 == [ok |-> TRUE,
               body |-> [clusterName |-> name,
                         projectId |-> project,
                         config |-> [gceClusterConfig |->
                             [zoneUri |-> generate_resource_uri(project, <<"zones", zn>>)]]]]
        b1 == IF Truthy(p["image_version"])
              THEN SetConfig(b0, "softwareConfig", [imageVersion |-> p["image_version"]])
              ELSE b0
        b2 == IF Truthy(p["bucket"])
              THEN SetConfig(b1, "configBucket", p["bucket"])
              ELSE b1
        b3 == IF Truthy(tags)
              THEN SetConfigIn(b2, "gceClusterConfig", "tags", <<tags>>)
              ELSE b2
        b4 == IF Truthy(p["network"])
              THEN SetConfigIn(b3, "gceClusterConfig", "networkUri",
                       generate_resource_uri(project, <<"regions", rgn, p["network"]>>))
              ELSE b3
        b5 == IF Truthy(p["subnetwork"])
              THEN SetConfigIn(b4, "gceClusterConfig", "subnetworkUri",
                       generate_resource_uri(project, <<"regions", rgn, p["subnetwork"]>>))
              ELSE b4
        b6 == IF Truthy(p["service_account_scopes"])
              THEN SetConfigIn(b5, "gceConfigCluster", "serviceAccountScopes",
                       <<"auth", p["service_account_scopes"]>>)
              ELSE b5
        b7 == IF Truthy(p["metadata"])
              THEN SetConfigIn(b6, "gceConfigCluster", "metadata", p["metadata"])
              ELSE b6
        b8 == IF Truthy(p["init_actions"])
              THEN SetConfig(b7, "initializationActions", p["init_actions"])
              ELSE b7
        b9 == IF Truthy(p["master_config"])
              THEN SetConfig(b8, "masterConfig", p["master_config"])
              ELSE b8
        b10 == IF Truthy(p["worker_config"])
               THEN SetConfig(b9, "workerConfig", p["worker_config"])
               ELSE b9
        b11 == IF Truthy(p["second_worker_config"])
               THEN SetConfig(b10, "secondaryWorkerConfig", p["second_worker_config"])
               ELSE b10
    IN  b11

---------------------------------------------------------------------------
(* Outcomes of the process *)

NoResult == [kind |-> "none", hasMsg |-> FALSE, hasChanged |-> FALSE,
             changed |-> FALSE, json |-> EmptyDict]

\* module.exit_json(changed=c, **j)
exit_json(c, j) == [kind |-> "exit_json", hasMsg |-> FALSE, hasChanged |-> TRUE,
                    changed |-> c, json |-> j]

\* module.fail_json(msg=..., changed=c) and module.fail_json(msg=...)
fail_json(hasC, c) == [kind |-> "fail_json", hasMsg |-> TRUE, hasChanged |-> hasC,
                       changed |-> c, json |-> EmptyDict]

\* an exception that leaves main(): the interpreter prints a traceback
Uncaught == [kind |-> "exception", hasMsg |-> FALSE, hasChanged |-> FALSE,
             changed |-> FALSE, json |-> EmptyDict]

---------------------------------------------------------------------------
(* The remote API *)

\* a Cluster resource, as returned by clusters.get
ClusterBody(s) == [clusterName |-> name, status |-> [state |-> s]]

\* an Operation resource, as returned by clusters.create and clusters.delete;
\* it has no top-level 'status' (the reason for the first test of the poll loop)
OperationBody(op) == [name |-> <<"operations", op>>, done |-> FALSE]

NoCall == [op |-> "none", ok |-> TRUE]
Call(op, ok) == [op |-> op, ok |-> ok]

Bump(n) == IF n < MaxGets THEN n + 1 ELSE n


---------------------------------------------------------------------------
(* Guards of main() *)

\* mutually_exclusive = [('network', 'subnetwork')]: AnsibleModule rejects the
\* arguments when both options are given, whatever their values
mutually_exclusive(p) == p["network"] # None /\ p["subnetwork"] # None

\* not zone.startswith(region)
ZoneOutsideRegion(zn, rgn) == ~StartsWith(zn, rgn)

\* not gce_email or not gce_project or not gce_credentials
EnvIncompleteNoneOnly(e) == \E n \in EnvNames : e[n] = None
EnvIncomplete(e) ==
    \/ ~Truthy(e["GCE_EMAIL"])
    \/ ~Truthy(e["GCE_PROJECT"])
    \/ ~Truthy(e["GCE_CREDENTIALS_FILE_PATH"])

\* state in ['present', 'active']
IsPresent(s) == s \in {"present", "active"}

\* state in ['absent', 'deleted']
IsAbsentElse(s) == ~IsPresent(s)
IsAbsent(s) == s \in {"absent", "deleted"}

\* 'status' not in json or json['status']['state'] != 'RUNNING'
LoopCondErrorEnds(j) ==
    IF "status" \notin DOMAIN j THEN TRUE
    ELSE j["status"]["state"] \notin {"RUNNING", "ERROR"}
LoopCondAnyStatus(j) == "status" \notin DOMAIN j
LoopCond(j) ==
    IF "status" \notin DOMAIN j THEN TRUE ELSE j["status"]["state"] # "RUNNING"

---------------------------------------------------------------------------
(* Initial states *)

\* every assignment of the options in which at most MaxGiven are given; a
\* given option is Empty or has its non-empty value
ParamSets ==
    UNION {{[o \in OptionNames |->
                IF o \notin G THEN None ELSE IF o \in N THEN o ELSE Empty] :
            N \in SUBSET G} :
           G \in {S \in SUBSET OptionNames : Cardinality(S) <= MaxGiven}}

Init ==
    /\ params \in ParamSets
    /\ state \in StateValues
    /\ sync \in BOOLEAN
    /\ region \in Regions
    /\ zone \in Zones
    /\ HAS_GOOGLE_API_LIB \in BOOLEAN
    /\ exists \in BOOLEAN
    /\ pc = "start"
    /\ changed = FALSE
    /\ json = EmptyDict
    /\ body = EmptyDict
    /\ result = NoResult
    /\ envMissing = "unread"
    /\ firstGet = "none"
    /\ auths = 0
    /\ gets = 0
    /\ creates = 0
    /\ deletes = 0
    /\ lastCall = NoCall
    /\ faults = FALSE
    /\ run = 1

---------------------------------------------------------------------------
(* Steps of main() *)

\* the process ends: fail_json and exit_json call sys.exit, an uncaught
\* exception ends the interpreter
Finish(r) == pc' = "done" /\ result' = r

\* AnsibleModule(argument_spec, mutually_exclusive)
Construct ==
    /\ pc = "start"
    /\ IF mutually_exclusive(params)
       THEN Finish(fail_json(FALSE, FALSE))
       ELSE pc' = "check_lib" /\ UNCHANGED result
    /\ UNCHANGED <<inputs, exists, changed, json, body, hist, faults, run>>

\* if not HAS_GOOGLE_API_LIB: fail_json
CheckLib ==
    /\ pc = "check_lib"
    /\ IF ~HAS_GOOGLE_API_LIB
       THEN Finish(fail_json(FALSE, FALSE))
       ELSE pc' = "check_zone" /\ UNCHANGED result
    /\ UNCHANGED <<inputs, exists, changed, json, body, hist, faults, run>>

\* if not zone.startswith(region): fail_json
CheckZone ==
    /\ pc = "check_zone"
    /\ IF ZoneOutsideRegion(zone, region)
       THEN Finish(fail_json(FALSE, FALSE))
       ELSE pc' = "read_env" /\ UNCHANGED result
    /\ UNCHANGED <<inputs, exists, changed, json, body, hist, faults, run>>

\* the three os.environ.get calls and the test of their values; the
\* environment is the same in every invocation
ReadEnv ==
    /\ pc = "read_env"
    /\ \E e \in [EnvNames -> EnvValues] :
         LET missing == IF \E n \in EnvNames : ~Truthy(e[n])
                        THEN "missing" ELSE "complete"
         IN  /\ envMissing \in {"unread", missing}
             /\ envMissing' = missing
             /\ IF EnvIncomplete(e)
                THEN Finish(fail_json(TRUE, FALSE))
                ELSE pc' = "auth" /\ UNCHANGED result
    /\ UNCHANGED <<inputs, exists, changed, json, body, firstGet, auths, gets,
                   creates, deletes, lastCall, faults, run>>

\* credentials = google_auth(module, gce_credentials); build(...);
\* json = {}; changed = False; and the test of state
Authenticate ==
    /\ pc = "auth"
    /\ auths' = auths + 1
    /\ \E ok \in BOOLEAN :
         /\ lastCall' = Call("auth", ok)
         /\ faults' = (faults \/ ~ok)
         /\ IF ~ok
            THEN Finish(fail_json(TRUE, FALSE)) /\ UNCHANGED <<changed, json>>
            ELSE /\ json' = EmptyDict
                 /\ changed' = FALSE
                 /\ pc' = IF IsPresent(state) THEN "get_present"
                          ELSE IF IsAbsent(state) THEN "get_absent"
                          ELSE "exit"
                 /\ UNCHANGED result
    /\ UNCHANGED <<inputs, exists, body, envMissing, firstGet, gets, creates,
                   deletes, run>>


\* how clusters.get(...).execute() can end: the Cluster resource, an
\* HttpError (404 when there is no such cluster, another status at any
\* time), or an exception that is no HttpError (transport)
GetOutcomes ==
    IF exists THEN {"found", "httperror", "exception"}
    ELSE {"notfound", "httperror", "exception"}

\* state present: which clause of the try statement takes over after the
\* initial get (no exception: the statement is left; HttpError: the first
\* handler, which creates; any other exception: the second handler)
present_handler_always_create(o) ==
    IF o \in {"found", "notfound", "httperror"} THEN "populate" ELSE "fail"
present_handler(o) ==
    CASE o = "found" -> "exit"
      [] o \in {"notfound", "httperror"} -> "populate"
      [] OTHER -> "fail"

\* state absent: no exception: the else clause, which deletes; HttpError:
\* pass; any other exception: fail_json
absent_handler_always_delete(o) ==
    IF o \in {"found", "notfound", "httperror"} THEN "delete" ELSE "fail"
absent_handler(o) ==
    CASE o = "found" -> "delete"
      [] o \in {"notfound", "httperror"} -> "exit"
      [] OTHER -> "fail"

\* state present: the initial get and the clauses of its try statement
GetPresent ==
    /\ pc = "get_present"
    /\ gets' = Bump(gets)
    /\ \E o \in GetOutcomes :
         /\ firstGet' = o
         /\ lastCall' = Call("get", o \in {"found", "notfound"})
         /\ faults' = (faults \/ o \in {"httperror", "exception"})
         /\ IF o = "found"
            THEN \E s \in ClusterStates : json' = ClusterBody(s)
            ELSE UNCHANGED json
         /\ IF present_handler(o) = "fail"
            THEN Finish(fail_json(TRUE, changed))
            ELSE pc' = present_handler(o) /\ UNCHANGED result
    /\ UNCHANGED <<inputs, exists, changed, body, envMissing, auths, creates,
                   deletes, run>>

\* body = populate_request_body(...), inside the handler of HttpError: an
\* exception raised here is not caught by the later clause of the same try
PopulateBody ==
    /\ pc = "populate"
    /\ LET r == populate_request_body(params, gce_project, region, zone)
       IN  IF r.ok
           THEN body' = r.body /\ pc' = "create" /\ UNCHANGED result
           ELSE Finish(Uncaught) /\ UNCHANGED body
    /\ UNCHANGED <<inputs, exists, changed, json, hist, faults, run>>

\* clusters.create(body=body).execute(): the cluster is created and an
\* Operation returned, or the call raises (always when the cluster exists)
Create ==
    /\ pc = "create"
    /\ creates' = creates + 1
    /\ \E ok \in (IF exists THEN {FALSE} ELSE BOOLEAN) :
         /\ lastCall' = Call("create", ok)
         /\ faults' = (faults \/ ~ok)
         /\ IF ok
            THEN /\ exists' = TRUE
                 /\ json' = OperationBody("create")
                 /\ pc' = "poll"
                 /\ UNCHANGED result
            ELSE /\ Finish(Uncaught)
                 /\ UNCHANGED <<exists, json>>
    /\ UNCHANGED <<inputs, changed, body, envMissing, firstGet, auths, gets,
                   deletes, run>>

\* one iteration of the poll loop: the get call and time.sleep
PollGet ==
    /\ pc = "poll"
    /\ sync /\ LoopCond(json)
    /\ gets' = Bump(gets)
    /\ \/ /\ \E s \in ClusterStates : json' = ClusterBody(s)
          /\ lastCall' = Call("get", TRUE)
          /\ UNCHANGED <<pc, result, faults>>
       \/ /\ lastCall' = Call("get", FALSE)
          /\ faults' = TRUE
          /\ Finish(Uncaught)
          /\ UNCHANGED json
    /\ UNCHANGED <<inputs, exists, changed, body, envMissing, firstGet, auths,
                   creates, deletes, run>>

\* changed = True, once sync is false or the loop condition is false
MarkChanged ==
    /\ pc = "poll"
    /\ ~(sync /\ LoopCond(json))
    /\ changed' = TRUE
    /\ pc' = "exit"
    /\ UNCHANGED <<inputs, exists, json, body, result, hist, faults, run>>

\* state absent: the get and the except clauses of its try statement
GetAbsent ==
    /\ pc = "get_absent"
    /\ gets' = Bump(gets)
    /\ \E o \in GetOutcomes :
         /\ firstGet' = o
         /\ lastCall' = Call("get", o \in {"found", "notfound"})
         /\ faults' = (faults \/ o \in {"httperror", "exception"})
         /\ IF o = "found"
            THEN \E s \in ClusterStates : json' = ClusterBody(s)
            ELSE UNCHANGED json
         /\ IF absent_handler(o) = "fail"
            THEN Finish(fail_json(TRUE, changed))
            ELSE pc' = absent_handler(o) /\ UNCHANGED result
    /\ UNCHANGED <<inputs, exists, changed, body, envMissing, auths, creates,
                   deletes, run>>

\* the else clause: clusters.delete(...).execute(); changed = True.  The
\* clause is outside the protection of the except clauses
Delete ==
    /\ pc = "delete"
    /\ deletes' = deletes + 1
    /\ \E ok \in BOOLEAN :
         /\ lastCall' = Call("delete", ok)
         /\ faults' = (faults \/ ~ok)
         /\ IF ok
            THEN /\ exists' = FALSE
                 /\ json' = OperationBody("delete")
                 /\ changed' = TRUE
                 /\ pc' = "exit"
                 /\ UNCHANGED result
            ELSE /\ Finish(Uncaught)
                 /\ UNCHANGED <<exists, json, changed>>
    /\ UNCHANGED <<inputs, body, envMissing, firstGet, auths, gets, creates,
                   run>>

\* module.exit_json(changed=changed, **json)
Exit ==
    /\ pc = "exit"
    /\ Finish(exit_json(changed, json))
    /\ UNCHANGED <<inputs, exists, changed, json, body, hist, faults, run>>

\* the same task is run again: a new process with the same arguments and
\* environment, against the remote as the previous run left it
NextRun ==
    /\ pc = "done"
    /\ run < MaxRuns
    /\ run' = run + 1
    /\ pc' = "start"
    /\ changed' = FALSE
    /\ json' = EmptyDict
    /\ body' = EmptyDict
    /\ result' = NoResult
    /\ firstGet' = "none"
    /\ auths' = 0
    /\ gets' = 0
    /\ creates' = 0
    /\ deletes' = 0
    /\ lastCall' = NoCall
    /\ UNCHANGED <<inputs, exists, envMissing, faults>>

Main ==
    \/ Construct
    \/ CheckLib
    \/ CheckZone
    \/ ReadEnv
    \/ Authenticate
    \/ GetPresent
    \/ PopulateBody
    \/ Create
    \/ PollGet
    \/ MarkChanged
    \/ GetAbsent
    \/ Delete
    \/ Exit

Next == Main

Spec == Init /\ [][Next]_vars

TwoRunNext == Main \/ NextRun

TwoRunSpec == Init /\ [][TwoRunNext]_vars


\* the get call of one loop iteration answers with state RUNNING
PollRunning == PollGet /\ json' = ClusterBody("RUNNING")

\* every remote call returns, and the cluster is eventually reported RUNNING
FairSpec == Init /\ [][Next]_vars /\ WF_vars(Next) /\ WF_vars(PollRunning)

---------------------------------------------------------------------------
(* Vocabulary of the properties *)

Done    == pc = "done"
Success == pc = "done" /\ result.kind = "exit_json"
Failure == pc = "done" /\ result.kind = "fail_json"

KnownState == state \in {"present", "active", "absent", "deleted"}
WantsPresent == state \in {"present", "active"}
WantsAbsent  == state \in {"absent", "deleted"}

\* the configuration errors: both network and subnetwork set, zone outside
\* region, an environment value missing or empty
ConfigError ==
    \/ (params["network"] # None /\ params["subnetwork"] # None)
    \/ ~StartsWith(zone, region)
    \/ envMissing = "missing"

NoRemoteCall == auths = 0 /\ gets = 0 /\ creates = 0 /\ deletes = 0

IsRunning(j) ==
    IF "status" \in DOMAIN j THEN j["status"]["state"] = "RUNNING" ELSE FALSE

\* a create call was issued and it returned
CreateReturned == creates = 1 /\ ~(lastCall.op = "create" /\ ~lastCall.ok)

\* the last remote call is one made after the initial get, and it failed
LaterCallFailed ==
    /\ ~lastCall.ok
    /\ \/ lastCall.op \in {"create", "delete"}
       \/ lastCall.op = "get" /\ creates = 1

\* the request body the cluster spec calls for: the three fixed fields and
\* one field for each optional field that is set and non-empty
Wanted(o) == params[o] \notin {None, Empty}
ExpectedGce ==
    LET keys == {"zoneUri"}
                \cup (IF Wanted("network") THEN {"networkUri"} ELSE {})
                \cup (IF Wanted("subnetwork") THEN {"subnetworkUri"} ELSE {})
                \cup (IF Wanted("service_account_scopes")
                      THEN {"serviceAccountScopes"} ELSE {})
                \cup (IF Wanted("metadata") THEN {"metadata"} ELSE {})
    IN  [k \in keys |->
           CASE k = "zoneUri" -> <<"projects", gce_project, "zones", zone>>
             [] k = "networkUri" ->
                  <<"projects", gce_project, "regions", region, params["network"]>>
             [] k = "subnetworkUri" ->
                  <<"projects", gce_project, "regions", region, params["subnetwork"]>>
             [] k = "serviceAccountScopes" ->
                  <<"auth", params["service_account_scopes"]>>
             [] k = "metadata" -> params["metadata"]]
ExpectedConfig ==
    LET keys == {"gceClusterConfig"}
                \cup (IF Wanted("image_version") THEN {"softwareConfig"} ELSE {})
                \cup (IF Wanted("bucket") THEN {"configBucket"} ELSE {})
                \cup (IF Wanted("init_actions") THEN {"initializationActions"} ELSE {})
                \cup (IF Wanted("master_config") THEN {"masterConfig"} ELSE {})
                \cup (IF Wanted("worker_config") THEN {"workerConfig"} ELSE {})
                \cup (IF Wanted("second_worker_config")
                      THEN {"secondaryWorkerConfig"} ELSE {})
    IN  [k \in keys |->
           CASE k = "gceClusterConfig" -> ExpectedGce
             [] k = "softwareConfig" -> [imageVersion |-> params["image_version"]]
             [] k = "configBucket" -> params["bucket"]
             [] k = "initializationActions" -> params["init_actions"]
             [] k = "masterConfig" -> params["master_config"]
             [] k = "workerConfig" -> params["worker_config"]
             [] k = "secondaryWorkerConfig" -> params["second_worker_config"]]
ExpectedBody ==
    [clusterName |-> name, projectId |-> gce_project, config |-> ExpectedConfig]

---------------------------------------------------------------------------
(* Properties *)

\* C1: with state present and the initial get reporting that the cluster
\* does not exist, a run whose remote calls all succeed ends having issued
\* exactly one create call, with the body the cluster spec calls for, in
\* success with changed=true -- for every cluster spec, those with
\* service_account_scopes or metadata included.
C1_CreateFromSpec ==
    (WantsPresent /\ firstGet = "notfound" /\ ~faults /\ Done) =>
        /\ creates = 1
        /\ body = ExpectedBody
        /\ Success
        /\ result.changed

\* C2: when the initial get fails with an error that is not not-found (an
\* HttpError of another status, or an exception that is no HttpError) the run
\* fails and issues no create and no delete call.
C2_OnlyNotFoundMeansAbsent ==
    (KnownState /\ firstGet \in {"httperror", "exception"}) =>
        /\ Failure
        /\ creates = 0
        /\ deletes = 0

\* C3: when a remote call made after the initial get fails (create, a get of
\* the poll loop, delete), the run ends in the structured failure outcome,
\* which carries a message and the changed flag computed so far.
C3_StructuredFailure ==
    LaterCallFailed =>
        /\ Failure
        /\ result.hasMsg
        /\ result.hasChanged
        /\ result.changed = changed

C5_FoundMeansUnchanged ==
    WantsPresent =>
        /\ firstGet = "found" =>
              /\ creates = 0
              /\ pc \in {"exit", "done"}
              /\ Done => (Success /\ ~result.changed)
        /\ (Done /\ result.hasChanged /\ result.changed) => creates = 1

\* a present run that found the cluster and ended
C5_Witness == WantsPresent /\ firstGet = "found" /\ Success

C7_ConfigErrorNoCall ==
    ConfigError =>
        /\ NoRemoteCall
        /\ pc \in {"start", "check_lib", "check_zone", "done"}
        /\ Done => Failure

\* a run that failed on an empty or missing environment value
C7_Witness == envMissing = "missing" /\ Failure /\ NoRemoteCall

\* C8: two runs with the same valid inputs against a remote whose calls
\* succeed: after the first run the existence of the cluster matches the
\* desired state, and the second run issues no create and no delete call and
\* reports changed=false.
C8_Idempotent ==
    (run = 2 /\ KnownState /\ envMissing = "complete" /\ ~faults) =>
        /\ pc = "start" => (exists <=> WantsPresent)
        /\ creates = 0
        /\ deletes = 0
        /\ Done => (Success /\ ~result.changed)

\* C9: when every remote call returns and the cluster is eventually
\* reported RUNNING, the run terminates; and as long as a synchronous create
\* has not been answered with RUNNING, every step of the run is another get
\* call, after whose response the run is still in the loop.
C9_PollUntilRunning ==
    /\ <>(pc = "done")
    /\ [][(pc = "poll" /\ sync /\ ~IsRunning(json)) =>
            /\ lastCall'.op = "get"
            /\ creates' = creates
            /\ lastCall'.ok => (pc' = "poll" /\ ~changed')]_vars

\* the loop has polled repeatedly and the cluster is reported in error
C9_Witness ==
    /\ pc = "poll" /\ sync /\ gets >= 3
    /\ lastCall = Call("get", TRUE)
    /\ json = ClusterBody("ERROR")

\* C10: a state option other than present, active, absent and deleted is
\* not rejected: the run issues no get, create or delete call and, with a
\* valid configuration and loadable credentials, ends in success with
\* changed=false and an empty body.
C10_UnknownStateNoOp ==
    ~KnownState =>
        /\ gets = 0 /\ creates = 0 /\ deletes = 0
        /\ (Done /\ ~ConfigError /\ HAS_GOOGLE_API_LIB /\ lastCall = Call("auth", TRUE)) =>
              /\ Success
              /\ ~result.changed
              /\ result.json = EmptyDict

\* a run with an unknown state that ended in success
C10_Witness == ~KnownState /\ Success /\ auths = 1

=============================================================================
